---- MODULE Spec2Model ----
(***************************************************************************)
(* Model of the two literate-programming notebooks of writers-workshop:   *)
(*   - "Auto-registering IPython magics": get_public_functions,           *)
(*     detect_magic_type, register_magic and the %%auto_register_magics   *)
(*     cell magic, acting on the kernel's magic registry;                 *)
(*   - "Running pytest in notebooks with ipytest": a session of           *)
(*     %%run_pytest cells, with and without the [clean] option.           *)
(***************************************************************************)
EXTENDS Integers, Sequences, FiniteSets, TLC

\* ------------------------------------------------------------------ bounds
\* Largest number of positional parameters of a function handed to
\* detect_magic_type.
MaxArgs == 3
\* Largest number of statements of a cell handed to get_public_functions and
\* %%auto_register_magics.
MaxCellLen == 2
\* Largest number of %%run_pytest cells run in a session of the pytest notebook.
MaxRuns == 3

\* ---------------------------------------------------------- Python values
\* Marker of a parameter declared without a default.
NoDefault == "<no default>"
\* Default values a parameter may declare: None, and 0 (a value that is falsy
\* like None but is not None).
DefaultValues == {"None", "0"}
\* A parameter is its default, or NoDefault.
ParamKinds == {NoDefault} \cup DefaultValues

\* Python's rule for a parameter list: a parameter without a default never
\* follows one with a default.
ValidParams(ps) ==
    \A i \in 1..Len(ps) : \A j \in 1..Len(ps) :
        (i < j /\ ps[i] # NoDefault) => ps[j] # NoDefault

ParamLists == UNION {{ps \in [1..n -> ParamKinds] : ValidParams(ps)} : n \in 0..MaxArgs}

\* The declared signature of a function: its positional parameters, and whether
\* it also declares *args, one keyword-only parameter, **kwargs.
Signatures ==
    [params : ParamLists, varargs : BOOLEAN, kwonly : BOOLEAN, varkw : BOOLEAN]

\* Names a cell binds (the names of the example cell of the notebook).
Names == {"foo", "bar"}

\* A function object: its __name__ and its signature.
FunctionsOver(sigs) == [kind : {"function"}, name : Names, sig : sigs]
Functions == FunctionsOver(Signatures)

\* The value None.
NoneValue == [kind |-> "NoneType"]

\* ------------------------------------------------------ inspect.getfullargspec
\* spec.defaults: None when no positional parameter has a default, otherwise the
\* tuple of the defaults of the trailing parameters that have one.
ArgSpecDefaults(ps) ==
    LET withDefault == {i \in 1..Len(ps) : ps[i] # NoDefault}
        first == Len(ps) - Cardinality(withDefault)
    IN  IF withDefault = {}
        THEN [isNone |-> TRUE, items |-> <<>>]
        ELSE [isNone |-> FALSE,
              items |-> [k \in 1..Cardinality(withDefault) |-> ps[first + k]]]

\* inspect.getfullargspec(fn): args lists the positional parameters only (here by
\* position); *args, keyword-only parameters and **kwargs are reported apart.
GetFullArgSpec(fn) ==
    [args |-> [i \in 1..Len(fn.sig.params) |-> i],
     defaults |-> ArgSpecDefaults(fn.sig.params),
     varargs |-> fn.sig.varargs,
     kwonlyargs |-> IF fn.sig.kwonly THEN <<"key">> ELSE <<>>,
     varkw |-> fn.sig.varkw]

\* ------------------------------------------------------------- MagicType
MagicType == {"LINE", "CELL", "LINE_CELL"}

\* Mutant: the arity tests are off by one (0 and 1 instead of 1 and 2).
DetectArityOffByOne(fn) ==
    LET spec == GetFullArgSpec(fn)
    IN  IF Len(spec.args) = 0
        THEN IF spec.defaults.isNone THEN "LINE" ELSE "None"
        ELSE IF Len(spec.args) = 1
        THEN IF spec.defaults.isNone THEN "CELL"
             ELSE IF Len(spec.defaults.items) = 1
                     /\ spec.defaults.items[Len(spec.defaults.items)] = "None"
                  THEN "LINE_CELL"
                  ELSE "None"
        ELSE "None"

\* Mutant: the last default is tested for falsiness (not spec.defaults[-1])
\* instead of identity with None.
DetectFalsyDefault(fn) ==
    LET spec == GetFullArgSpec(fn)
    IN  IF Len(spec.args) = 1
        THEN IF spec.defaults.isNone THEN "LINE" ELSE "None"
        ELSE IF Len(spec.args) = 2
        THEN IF spec.defaults.isNone THEN "CELL"
             ELSE IF Len(spec.defaults.items) = 1
                     /\ spec.defaults.items[Len(spec.defaults.items)] \in {"None", "0"}
                  THEN "LINE_CELL"
                  ELSE "None"
        ELSE "None"

\* Mutant: the number of defaults is not tested (len(spec.defaults) == 1 dropped).
DetectAnyDefaultCount(fn) ==
    LET spec == GetFullArgSpec(fn)
    IN  IF Len(spec.args) = 1
        THEN IF spec.defaults.isNone THEN "LINE" ELSE "None"
        ELSE IF Len(spec.args) = 2
        THEN IF spec.defaults.isNone THEN "CELL"
             ELSE IF spec.defaults.items[Len(spec.defaults.items)] = "None"
                  THEN "LINE_CELL"
                  ELSE "None"
        ELSE "None"

\* detect_magic_type(fn): the MagicType of fn's signature, or "None".
DetectMagicType(fn) ==
    LET spec == GetFullArgSpec(fn)
    IN  IF Len(spec.args) = 1
        THEN IF spec.defaults.isNone THEN "LINE" ELSE "None"
        ELSE IF Len(spec.args) = 2
        THEN IF spec.defaults.isNone THEN "CELL"
             ELSE IF Len(spec.defaults.items) = 1
                     /\ spec.defaults.items[Len(spec.defaults.items)] = "None"
                  THEN "LINE_CELL"
                  ELSE "None"
        ELSE "None"

\* Truth value of detect_magic_type's result in "if not magic_type": the members
\* of a plain enum.Enum are all truthy, None is falsy.
Truthy(magic_type) == magic_type \in MagicType

\* ------------------------------------------------------------------ cells
\* Signatures of the functions the cells of a session define: (), (line),
\* (line, cell), (line, cell=None).
PlainSignature(ps) == [params |-> ps, varargs |-> FALSE, kwonly |-> FALSE, varkw |-> FALSE]
CellSignatures ==
    {PlainSignature(<<>>), PlainSignature(<<NoDefault>>),
     PlainSignature(<<NoDefault, NoDefault>>), PlainSignature(<<NoDefault, "None">>)}
CellFunctions == FunctionsOver(CellSignatures)

\* A statement of a cell: "name = None", "def name(sig): ...", or text that is
\* not Python.
Statements ==
    [stmt : {"assign"}, name : Names, value : {NoneValue}]
    \cup [stmt : {"def"}, name : Names, value : CellFunctions]
    \cup {[stmt |-> "malformed", name |-> "", value |-> NoneValue]}

\* A def statement binds its name to a function of that __name__.
WellFormedStatement(st) == st.stmt = "def" => st.value.name = st.name

Cells ==
    UNION {{c \in [1..n -> Statements] : \A i \in 1..n : WellFormedStatement(c[i])}
           : n \in 0..MaxCellLen}

\* The empty dict.
EmptyDict == [n \in {} |-> NoneValue]

\* content[name] = value
SetItem(content, name, value) ==
    [n \in (DOMAIN content) \cup {name} |-> IF n = name THEN value ELSE content[n]]

RECURSIVE RunStatements(_, _)
RunStatements(stmts, content) ==
    IF stmts = <<>>
    THEN content
    ELSE RunStatements(Tail(stmts), SetItem(content, Head(stmts).name, Head(stmts).value))

\* exec(cell, None, content): the text is compiled as a whole, so malformed text
\* raises SyntaxError before any statement runs; otherwise the statements run in
\* order and bind their names in content.
Exec(cell, content) ==
    IF \E i \in 1..Len(cell) : cell[i].stmt = "malformed"
    THEN [raised |-> "SyntaxError", content |-> content]
    ELSE [raised |-> "no", content |-> RunStatements(cell, content)]

\* inspect.isfunction
IsFunction(value) == value.kind = "function"

\* Mutant: the filter of the comprehension is dropped.
GetPublicFunctionsNoFilter(cell) ==
    LET done == Exec(cell, EmptyDict)
    IN  IF done.raised # "no"
        THEN [raised |-> done.raised, value |-> EmptyDict]
        ELSE [raised |-> "no", value |-> done.content]

\* Mutant: the exec is wrapped in try/except and a failing cell yields {}.
GetPublicFunctionsSwallow(cell) ==
    LET done == Exec(cell, EmptyDict)
    IN  IF done.raised # "no"
        THEN [raised |-> "no", value |-> EmptyDict]
        ELSE [raised |-> "no",
              value |-> [n \in {m \in DOMAIN done.content : IsFunction(done.content[m])}
                         |-> done.content[n]]]

\* get_public_functions(cell): what the call raises ("no": it returns) and the
\* mapping it returns.
GetPublicFunctions(cell) ==
    LET done == Exec(cell, EmptyDict)
    IN  IF done.raised # "no"
        THEN [raised |-> done.raised, value |-> EmptyDict]
        ELSE [raised |-> "no",
              value |-> [n \in {m \in DOMAIN done.content : IsFunction(done.content[m])}
                         |-> done.content[n]]]

\* ------------------------------------------------- the kernel's magic registry
\* IPython's registry of magics: one dict of line magics and one of cell magics,
\* each from magic name to function. It is empty of user magics as the session
\* starts.
NoMagics == [line |-> EmptyDict, cell |-> EmptyDict]

\* The three registrars imported from IPython.core.magic. Each registers fn under
\* fn.__name__: as a line magic, as a cell magic, or as both.
RegisterLineMagic(magics, fn) ==
    [magics EXCEPT !.line = SetItem(magics.line, fn.name, fn)]
RegisterCellMagic(magics, fn) ==
    [magics EXCEPT !.cell = SetItem(magics.cell, fn.name, fn)]
RegisterLineCellMagic(magics, fn) ==
    [line |-> SetItem(magics.line, fn.name, fn),
     cell |-> SetItem(magics.cell, fn.name, fn)]

\* Mutant: LINE_CELL is mapped to register_cell_magic.
RegistrarsLineCellAsCell ==
    [t \in MagicType |->
        CASE t = "LINE" -> "register_line_magic"
          [] t = "CELL" -> "register_cell_magic"
          [] t = "LINE_CELL" -> "register_cell_magic"]

\* The registrars dict: MagicType -> registrar.
Registrars ==
    [t \in MagicType |->
        CASE t = "LINE" -> "register_line_magic"
          [] t = "CELL" -> "register_cell_magic"
          [] t = "LINE_CELL" -> "register_line_cell_magic"]

\* registrar(fn)
CallRegistrar(registrar, magics, fn) ==
    CASE registrar = "register_line_magic" -> RegisterLineMagic(magics, fn)
      [] registrar = "register_cell_magic" -> RegisterCellMagic(magics, fn)
      [] registrar = "register_line_cell_magic" -> RegisterLineCellMagic(magics, fn)

\* Values register_magic may be handed as magic_type: the three members of
\* MagicType, None, the str 'LINE' (hashable, no member) and the list [] (not
\* hashable).
MagicTypeArgs == MagicType \cup {"None", "'LINE'", "[]"}
Hashable(value) == value # "[]"

\* Mutant: an unknown magic type falls back to register_line_magic
\* (registrars.get(magic_type, register_line_magic)).
RegisterMagicFallback(magics, fn, magic_type) ==
    IF ~Hashable(magic_type)
    THEN [raised |-> "TypeError", cause |-> "", magics |-> magics]
    ELSE IF magic_type \notin DOMAIN Registrars
    THEN [raised |-> "no", cause |-> "", magics |-> RegisterLineMagic(magics, fn)]
    ELSE [raised |-> "no", cause |-> "",
          magics |-> CallRegistrar(Registrars[magic_type], magics, fn)]

\* Mutant: the registrar call replaces the registry by one holding only fn.
RegisterMagicReset(magics, fn, magic_type) ==
    IF ~Hashable(magic_type)
    THEN [raised |-> "TypeError", cause |-> "", magics |-> magics]
    ELSE IF magic_type \notin DOMAIN Registrars
    THEN [raised |-> "RuntimeError", cause |-> "KeyError", magics |-> magics]
    ELSE [raised |-> "no", cause |-> "",
          magics |-> CallRegistrar(Registrars[magic_type], NoMagics, fn)]

\* register_magic(fn, magic_type): the lookup registrars[magic_type] raises
\* TypeError for a value that cannot be hashed and KeyError for a value that is no
\* key; only the KeyError is caught, and re-raised as RuntimeError from it. A
\* registrar found is called with fn.
RegisterMagic(magics, fn, magic_type) ==
    IF ~Hashable(magic_type)
    THEN [raised |-> "TypeError", cause |-> "", magics |-> magics]
    ELSE IF magic_type \notin DOMAIN Registrars
    THEN [raised |-> "RuntimeError", cause |-> "KeyError", magics |-> magics]
    ELSE [raised |-> "no", cause |-> "",
          magics |-> CallRegistrar(Registrars[magic_type], magics, fn)]

\* public_functions.items(): a dict iterates in the order its keys were first
\* inserted, here the order in which the cell first binds them.
RECURSIVE FirstBound(_, _)
FirstBound(stmts, seen) ==
    IF stmts = <<>>
    THEN <<>>
    ELSE IF Head(stmts).name \in seen
    THEN FirstBound(Tail(stmts), seen)
    ELSE <<Head(stmts).name>> \o FirstBound(Tail(stmts), seen \cup {Head(stmts).name})

Items(cell, dict) == SelectSeq(FirstBound(cell, {}), LAMBDA n : n \in DOMAIN dict)

\* The for loop of auto_register_magics over the items still to visit: a function
\* of no magic type is skipped, the others are registered; an exception of
\* register_magic ends the loop.
RECURSIVE RegisterAll(_, _, _)
RegisterAll(names, public_functions, magics) ==
    IF names = <<>>
    THEN [raised |-> "no", cause |-> "", magics |-> magics]
    ELSE LET fn == public_functions[Head(names)]
             magic_type == DetectMagicType(fn)
         IN  IF ~Truthy(magic_type)
             THEN RegisterAll(Tail(names), public_functions, magics)
             ELSE LET done == RegisterMagic(magics, fn, magic_type)
                  IN  IF done.raised # "no"
                      THEN done
                      ELSE RegisterAll(Tail(names), public_functions, done.magics)

\* %%auto_register_magics on a cell: an exception of get_public_functions is not
\* caught.
AutoRegisterMagics(magics, cell) ==
    LET public_functions == GetPublicFunctions(cell)
    IN  IF public_functions.raised # "no"
        THEN [raised |-> public_functions.raised, cause |-> "", magics |-> magics]
        ELSE RegisterAll(Items(cell, public_functions.value), public_functions.value, magics)

\* ------------------------------------------------------------------ state
VARIABLES
    fn,         \* the function handed to detect_magic_type
    detected,   \* what detect_magic_type returned for it ("not called": not yet)
    magics,     \* the kernel's magic registry
    last,       \* the call of the cell being run: its arguments and how it ended
    user_ns,    \* pytest notebook: the tests defined in the notebook's namespace
    history,    \* pytest notebook: the %%run_pytest cells run so far, in order
    collected   \* pytest notebook: the tests the last %%run_pytest cell ran

vars == <<fn, detected, magics, last, user_ns, history, collected>>

\* No call is being shown: the notebook waits at an empty prompt.
Idle ==
    [op |-> "none", cell |-> <<>>, fn |-> NoneValue, magic_type |-> "None",
     raised |-> "no", cause |-> "", value |-> EmptyDict]

SomeFunction == [kind |-> "function", name |-> "foo", sig |-> PlainSignature(<<>>)]

\* ------------------------------------------------ the magics notebook, a session
Init ==
    /\ fn = SomeFunction
    /\ detected = "not called"
    /\ magics = NoMagics
    /\ last = Idle
    /\ user_ns = {}
    /\ history = <<>>
    /\ collected = {}

\* A cell calls get_public_functions(cell).
CallGetPublicFunctions ==
    /\ last = Idle
    /\ \E cell \in Cells :
        LET done == GetPublicFunctions(cell)
        IN  last' = [Idle EXCEPT !.op = "get_public_functions", !.cell = cell,
                                 !.raised = done.raised, !.value = done.value]
    /\ UNCHANGED <<fn, detected, magics, user_ns, history, collected>>

\* A cell calls register_magic(f, magic_type).
CallRegisterMagic ==
    /\ last = Idle
    /\ \E f \in CellFunctions : \E magic_type \in MagicTypeArgs :
        LET done == RegisterMagic(magics, f, magic_type)
        IN  /\ magics' = done.magics
            /\ last' = [Idle EXCEPT !.op = "register_magic", !.fn = f,
                                    !.magic_type = magic_type,
                                    !.raised = done.raised, !.cause = done.cause]
    /\ UNCHANGED <<fn, detected, user_ns, history, collected>>

\* A cell headed %%auto_register_magics is run.
CellAutoRegisterMagics ==
    /\ last = Idle
    /\ \E cell \in Cells :
        LET done == AutoRegisterMagics(magics, cell)
        IN  /\ magics' = done.magics
            /\ last' = [Idle EXCEPT !.op = "auto_register_magics", !.cell = cell,
                                    !.raised = done.raised, !.cause = done.cause]
    /\ UNCHANGED <<fn, detected, user_ns, history, collected>>

\* The cell has ended (returned or raised) and the notebook moves to the next
\* prompt; the registry stays as the cell left it.
NextPrompt ==
    /\ last # Idle
    /\ last' = Idle
    /\ UNCHANGED <<fn, detected, magics, user_ns, history, collected>>

Next ==
    \/ CallGetPublicFunctions
    \/ CallRegisterMagic
    \/ CellAutoRegisterMagics
    \/ NextPrompt

Spec == Init /\ [][Next]_vars

\* --------------------------------------------- detect_magic_type, as a function
InitDetect ==
    /\ fn \in Functions
    /\ detected = "not called"
    /\ magics = NoMagics
    /\ last = Idle
    /\ user_ns = {}
    /\ history = <<>>
    /\ collected = {}

\* detect_magic_type(fn) is called.
CallDetectMagicType ==
    /\ detected = "not called"
    /\ detected' = DetectMagicType(fn)
    /\ UNCHANGED <<fn, magics, last, user_ns, history, collected>>

\* Another function is defined.
DefineFunction ==
    /\ detected # "not called"
    /\ fn' \in Functions
    /\ detected' = "not called"
    /\ UNCHANGED <<magics, last, user_ns, history, collected>>

NextDetect == CallDetectMagicType \/ DefineFunction

SpecDetect == InitDetect /\ [][NextDetect]_vars

\* ------------------------------------------------ the pytest notebook, a session
\* The tests the cells of the notebook define.
TestNames == {"TestFoo", "test_baz", "test_spam"}

\* ipytest's clean: the names of the namespace that look like tests are deleted
\* from it.
CleanTests(ns) == {n \in ns : n \notin TestNames}

\* Mutant: [clean] deletes nothing.
RunPytestNoClean(ns, clean, cell) ==
    LET after == ns \cup cell
    IN  [user_ns |-> after, collected |-> {n \in after : n \in TestNames}]

\* %%run_pytest, with or without [clean], on a cell defining the tests of cell:
\* with [clean] the namespace is cleaned first; the cell is run, which defines its
\* tests in the namespace; pytest then collects and runs the tests of the
\* namespace.
RunPytest(ns, clean, cell) ==
    LET after == (IF clean THEN CleanTests(ns) ELSE ns) \cup cell
    IN  [user_ns |-> after, collected |-> {n \in after : n \in TestNames}]

\* A %%run_pytest or %%run_pytest[clean] cell is run.
CellRunPytest ==
    /\ Len(history) < MaxRuns
    /\ \E clean \in BOOLEAN : \E cell \in SUBSET TestNames :
        LET done == RunPytest(user_ns, clean, cell)
        IN  /\ user_ns' = done.user_ns
            /\ collected' = done.collected
            /\ history' = Append(history, [clean |-> clean, cell |-> cell])
    /\ UNCHANGED <<fn, detected, magics, last>>

NextPytest == CellRunPytest

SpecPytest == Init /\ [][NextPytest]_vars

\* ================================================================= claims
\* Helpers of the claims' statements.

\* The index of the last statement of cell that binds name; 0 when none does.
LastBinding(cell, name) ==
    LET at == {i \in 1..Len(cell) : cell[i].name = name}
    IN  IF at = {} THEN 0 ELSE CHOOSE i \in at : \A j \in at : j <= i

\* Whether the final binding of name in cell is a function.
FinallyFunction(cell, name) ==
    /\ LastBinding(cell, name) # 0
    /\ cell[LastBinding(cell, name)].stmt = "def"

\* The function name is finally bound to in cell.
FinalFunction(cell, name) == cell[LastBinding(cell, name)].value

\* fn declares positional parameters only.
OnlyPositional(f) == ~f.sig.varargs /\ ~f.sig.kwonly /\ ~f.sig.varkw

\* ---------------------------------------------------------------------- C1
\* C1: when get_public_functions(cell) returns, the mapping it returns contains
\* exactly the names whose final binding in the cell is a function, each mapped
\* to that function; a name finally bound to a non-function is absent.
C1_PublicFunctionsAreFinalFunctions ==
    (last.op = "get_public_functions" /\ last.raised = "no") =>
        /\ DOMAIN last.value \subseteq Names
        /\ \A n \in Names :
            IF FinallyFunction(last.cell, n)
            THEN n \in DOMAIN last.value /\ last.value[n] = FinalFunction(last.cell, n)
            ELSE n \notin DOMAIN last.value

\* The example of the notebook: foo = None, then def bar(): returned {bar: bar}.
C1_Witness ==
    /\ last.op = "get_public_functions"
    /\ last.raised = "no"
    /\ Len(last.cell) = 2
    /\ last.cell[1] = [stmt |-> "assign", name |-> "foo", value |-> NoneValue]
    /\ last.cell[2].stmt = "def"
    /\ last.cell[2].name = "bar"
    /\ DOMAIN last.value = {"bar"}

\* ---------------------------------------------------------------------- C2
\* C2: for a function whose parameter list is a single parameter without a
\* default, detect_magic_type returns MagicType.LINE.
C2_SingleArgumentIsLine ==
    (/\ detected # "not called"
     /\ OnlyPositional(fn)
     /\ fn.sig.params = <<NoDefault>>) => detected = "LINE"

C2_Witness ==
    /\ detected = "LINE"
    /\ OnlyPositional(fn)
    /\ fn.sig.params = <<NoDefault>>

\* ---------------------------------------------------------------------- C3
\* C3: for a function whose parameter list is two parameters, neither with a
\* default, detect_magic_type returns MagicType.CELL.
C3_TwoArgumentsIsCell ==
    (/\ detected # "not called"
     /\ OnlyPositional(fn)
     /\ fn.sig.params = <<NoDefault, NoDefault>>) => detected = "CELL"

C3_Witness ==
    /\ detected = "CELL"
    /\ OnlyPositional(fn)
    /\ fn.sig.params = <<NoDefault, NoDefault>>

\* ---------------------------------------------------------------------- C4
\* C4: for a function whose parameter list is two parameters of which only the
\* second has a default, and that default is None, detect_magic_type returns
\* MagicType.LINE_CELL; for a function of two parameters whose second has a
\* default other than None, it does not return LINE_CELL.
C4_SecondDefaultNoneIsLineCell ==
    detected # "not called" =>
        /\ (OnlyPositional(fn) /\ fn.sig.params = <<NoDefault, "None">>)
                => detected = "LINE_CELL"
        /\ (/\ Len(fn.sig.params) = 2
            /\ fn.sig.params[2] \notin {NoDefault, "None"}) => detected # "LINE_CELL"

C4_Witness ==
    /\ detected = "LINE_CELL"
    /\ OnlyPositional(fn)
    /\ fn.sig.params = <<NoDefault, "None">>

\* ---------------------------------------------------------------------- C5
\* C5: detect_magic_type returns None for a function of zero parameters, of one
\* parameter with a default, of two parameters whose second has a default other
\* than None, of two parameters both with defaults, and of three or more
\* parameters.
C5_OtherShapesAreNone ==
    (/\ detected # "not called"
     /\ \/ Len(fn.sig.params) = 0
        \/ Len(fn.sig.params) = 1 /\ fn.sig.params[1] # NoDefault
        \/ Len(fn.sig.params) = 2 /\ fn.sig.params[2] \notin {NoDefault, "None"}
        \/ Len(fn.sig.params) = 2 /\ fn.sig.params[1] # NoDefault
        \/ Len(fn.sig.params) >= 3) => detected = "None"

\* Two parameters that both default to None were classified None.
C5_Witness ==
    /\ detected = "None"
    /\ OnlyPositional(fn)
    /\ fn.sig.params = <<"None", "None">>

\* Helpers of the claims about the registry.

\* The entry of name in dict is the same in old and new: absent in both, or
\* present in both with the same function.
SameEntry(old, new, name) ==
    /\ name \in DOMAIN old <=> name \in DOMAIN new
    /\ name \in DOMAIN old => new[name] = old[name]

\* dict maps name to f.
Holds(dict, name, f) == name \in DOMAIN dict /\ dict[name] = f

\* cell is text that does not compile.
Malformed(cell) == \E i \in 1..Len(cell) : cell[i].stmt = "malformed"

\* ---------------------------------------------------------------------- C6
\* C6 as stated: register_magic(fn, magic_type) with a magic_type that is no key of
\* registrars ends in a RuntimeError raised from the KeyError of the lookup and
\* leaves the registry unchanged; with one of the three known types it raises no
\* such error.
C6_Original ==
    [][last'.op = "register_magic" =>
        /\ last'.magic_type \notin DOMAIN Registrars =>
            /\ last'.raised = "RuntimeError"
            /\ last'.cause = "KeyError"
            /\ magics' = magics
        /\ last'.magic_type \in DOMAIN Registrars => last'.raised # "RuntimeError"]_vars

\* C6 as amended: with a hashable magic_type that is no key of registrars the call
\* ends in a RuntimeError raised from the KeyError of the lookup; with a
\* magic_type that cannot be hashed it ends in the TypeError of the lookup, which
\* is not wrapped; in both cases the registry is left unchanged. With one of the
\* three known types it raises nothing.
C6_UnknownHashableTypeIsRuntimeError ==
    [][last'.op = "register_magic" =>
        /\ (last'.magic_type \notin DOMAIN Registrars /\ Hashable(last'.magic_type)) =>
            /\ last'.raised = "RuntimeError"
            /\ last'.cause = "KeyError"
            /\ magics' = magics
        /\ ~Hashable(last'.magic_type) =>
            /\ last'.raised = "TypeError"
            /\ magics' = magics
        /\ last'.magic_type \in DOMAIN Registrars => last'.raised = "no"]_vars

\* register_magic(fn, None) ended in the RuntimeError while magics were registered.
C6_Witness ==
    /\ last.op = "register_magic"
    /\ last.magic_type = "None"
    /\ last.raised = "RuntimeError"
    /\ last.cause = "KeyError"
    /\ DOMAIN magics.line # {}

\* ---------------------------------------------------------------------- C7
\* C7: when %%auto_register_magics has run a cell, every function the cell
\* defines (its final function bindings) is registered by the registrar of its
\* detected type: a LINE function as a line magic and not as a cell magic, a CELL
\* function as a cell magic and not as a line magic, a LINE_CELL function as both;
\* a name whose function has no detected type, or that is bound to no function,
\* is not registered by the invocation.
C7_RegisteredAsDetected ==
    [][(last'.op = "auto_register_magics" /\ last'.raised = "no") =>
        \A n \in Names :
            LET f == FinalFunction(last'.cell, n)
                magic_type == IF FinallyFunction(last'.cell, n)
                              THEN DetectMagicType(f) ELSE "None"
            IN  CASE magic_type = "LINE" ->
                        /\ Holds(magics'.line, n, f)
                        /\ SameEntry(magics.cell, magics'.cell, n)
                  [] magic_type = "CELL" ->
                        /\ Holds(magics'.cell, n, f)
                        /\ SameEntry(magics.line, magics'.line, n)
                  [] magic_type = "LINE_CELL" ->
                        /\ Holds(magics'.line, n, f)
                        /\ Holds(magics'.cell, n, f)
                  [] OTHER ->
                        /\ SameEntry(magics.line, magics'.line, n)
                        /\ SameEntry(magics.cell, magics'.cell, n)]_vars

\* A cell defining foo(line, cell=None) and bar() was run: foo is a line and a
\* cell magic, bar is no magic.
C7_Witness ==
    /\ last.op = "auto_register_magics"
    /\ last.raised = "no"
    /\ Len(last.cell) = 2
    /\ last.cell[1].stmt = "def"
    /\ last.cell[1].name = "foo"
    /\ DetectMagicType(last.cell[1].value) = "LINE_CELL"
    /\ last.cell[2].stmt = "def"
    /\ last.cell[2].name = "bar"
    /\ DetectMagicType(last.cell[2].value) = "None"
    /\ Holds(magics.line, "foo", last.cell[1].value)
    /\ Holds(magics.cell, "foo", last.cell[1].value)
    /\ "bar" \notin (DOMAIN magics.line) \cup (DOMAIN magics.cell)

\* ---------------------------------------------------------------------- C8
\* C8: no invocation removes a magic: every name registered as a line magic, or
\* as a cell magic, before a step is still registered as one after it.
C8_RegistryAppendOnly ==
    [][/\ DOMAIN magics.line \subseteq DOMAIN magics'.line
       /\ DOMAIN magics.cell \subseteq DOMAIN magics'.cell]_vars

\* %%auto_register_magics has registered a magic of its cell, and a line magic the
\* cell does not mention is still registered.
C8_Witness ==
    /\ last.op = "auto_register_magics"
    /\ last.raised = "no"
    /\ \E n \in DOMAIN magics.line : LastBinding(last.cell, n) = 0
    /\ \E n \in DOMAIN magics.cell :
        FinallyFunction(last.cell, n) /\ magics.cell[n] = FinalFunction(last.cell, n)

\* ---------------------------------------------------------------------- C9
\* The tests defined by the cells i..j of the session.
TestsOfCells(i, j) == UNION {history[k].cell : k \in i..j}

\* The index of the last [clean] cell of the session; 1 when there is none.
LastClean ==
    LET at == {i \in 1..Len(history) : history[i].clean}
    IN  IF at = {} THEN 1 ELSE CHOOSE i \in at : \A j \in at : j <= i

C10_Original ==
    (last.op \in {"get_public_functions", "auto_register_magics"} /\ Malformed(last.cell))
        => last.raised = "no"

\* C10 as amended: a binding to a non-function is left out without an error, but
\* malformed text is not: on a cell that does not compile get_public_functions and
\* %%auto_register_magics end in the SyntaxError of exec, and nothing is
\* registered; on any other cell they end without an error, and every value of the
\* mapping returned is a function.
C10_MalformedCellRaises ==
    [][last'.op \in {"get_public_functions", "auto_register_magics"} =>
        IF Malformed(last'.cell)
        THEN last'.raised = "SyntaxError" /\ magics' = magics
        ELSE /\ last'.raised = "no"
             /\ \A n \in DOMAIN last'.value : IsFunction(last'.value[n])]_vars

\* %%auto_register_magics on a cell defining the line magic foo, followed by
\* malformed text, ended in SyntaxError and foo is no magic.
C10_Witness ==
    /\ last.op = "auto_register_magics"
    /\ last.raised = "SyntaxError"
    /\ Len(last.cell) = 2
    /\ last.cell[1].stmt = "def"
    /\ last.cell[1].name = "foo"
    /\ DetectMagicType(last.cell[1].value) = "LINE"
    /\ last.cell[2].stmt = "malformed"
    /\ "foo" \notin DOMAIN magics.line

\* --------------------------------------------------------------------- C11
\* The three documented shapes of a magic: (line), (line, cell), (line, cell=None).
DocumentedShapes ==
    {<<NoDefault>>, <<NoDefault, NoDefault>>, <<NoDefault, "None">>}

\* C11: detect_magic_type returns a magic type only for a function whose whole
\* parameter list is one of the three documented shapes; a function that also
\* declares *args, **kwargs or a keyword-only parameter is classified None.
C11_ExtrasAreNone ==
    (detected # "not called" /\ detected # "None") =>
        /\ OnlyPositional(fn)
        /\ fn.sig.params \in DocumentedShapes

====
